---- MODULE Spec2Model ----
(***************************************************************************)
(* Score extraction and tokenization pipeline of the piano/violin          *)
(* track-infilling data preparation:                                       *)
(*   preprocess/encode.py          windows, density bins, masking, tokens  *)
(*   preprocess/preprocess_midi.py notes, bars, events, per-file skipping  *)
(*                                                                         *)
(* Six machines share the module.  Each has its own variables, its own     *)
(* initial predicate and next-state relation, and leaves the variables of  *)
(* the other machines untouched:                                           *)
(*   SpecWindow   get_bar_indices on bounded (bars, window, hop)           *)
(*   SpecDensity  get_density_bins and the density bucket of a count       *)
(*   SpecEncode   the (window, transposition) loop of encode_song_data     *)
(*   SpecMidi     preprocess_midi_folder / preprocess_midi_file            *)
(*   SpecTrack    the message loop of preprocess_midi_file on one track    *)
(*   SpecBar      notes_to_bar_data / events_to_events_data on one bar     *)
(***************************************************************************)
EXTENDS Integers, Sequences, FiniteSets, TLC

VARIABLES
    \* ---- get_bar_indices -------------------------------------------------
    bars,               \* argument: number of bars of the song
    window_size_bars,   \* argument
    hop_length_bars,    \* argument
    bar_indices,        \* the returned list of (start, end) pairs
    w_pc,               \* "call" before the call, "done" after it
    \* ---- get_density_bins / np.digitize ----------------------------------
    distribution,       \* non-zero NOTE_ON counts, one per (track, window)
    bins,               \* argument: number of density bins asked for
    percents,           \* the values i of the quantile loop, in loop order
    quantiles,          \* the returned edges, in hundredths
    note_on_events,     \* a NOTE_ON count to be bucketed
    density_token,      \* the DENSITY token of that count
    d_pc,               \* "call", "binned", "bucketed"
    \* ---- notes_to_bar_data ----------------------------------------------
    b_notes,            \* argument: the notes of one channel
    b_index,            \* the bar asked for (bar_index of the caller's loop)
    b_bar,              \* the returned bar_data
    b_pc,               \* "call" before the call, "done" after it
    \* ---- preprocess_midi_folder -----------------------------------------
    file_index,         \* number of files of the sorted listing read so far
    channel_notes,      \* preprocess_midi_file: notes per channel, last file
    song_data,          \* preprocess_midi_file: its return value, last file
    songs_data,         \* the songs kept so far
    songs_data_train,   \* the returned split
    songs_data_valid,
    file_log,           \* history: what each file read held
    m_pc,               \* "loop" while files are read, "done" after the split
    \* ---- the message loop of preprocess_midi_file (it also uses
    \*      channel_notes above) --------------------------------------------
    current_tick,       \* the absolute-tick clock of the track
    note_on_times,      \* (channel, pitch) -> tick of the pending note-on
    msg_log,            \* history: the messages read so far, in order
    t_pc,               \* "loop" while messages are read, "done" at the end
    \* ---- encode_song_data (it also uses bars, window_size_bars,
    \*      hop_length_bars and bar_indices above) --------------------------
    given_song,         \* history: the song as it was when passed in
    caller_song,        \* the caller's song_data object
    transpositions,     \* argument
    permute,            \* argument
    density_bins,       \* argument: edges, in hundredths
    bar_fill,           \* argument
    track_fill,         \* argument
    fill_track_number,  \* argument
    count,              \* combinations done
    song_data_copy,     \* the masked copy of the last combination
    bar_data_fill,      \* the bar-fill backup of the last combination
    fill_bars_backup,   \* the track-fill backup of the last combination
    token_sequences,    \* the result
    sample_log,         \* history: per sample, its draws and its parts
    e_pc                \* "start", "loop", "done"

windowVars  == <<bars, window_size_bars, hop_length_bars, bar_indices, w_pc>>
densityVars == <<distribution, bins, percents, quantiles, note_on_events,
                 density_token, d_pc>>
barVars     == <<b_notes, b_index, b_bar, b_pc>>
midiVars    == <<file_index, channel_notes, song_data, songs_data,
                 songs_data_train, songs_data_valid, file_log, m_pc>>
trackVars   == <<current_tick, note_on_times, msg_log, t_pc>>
encodeVars  == <<given_song, caller_song, transpositions, permute, density_bins,
                 bar_fill, track_fill, fill_track_number, count, song_data_copy,
                 bar_data_fill, fill_bars_backup, token_sequences, sample_log,
                 e_pc>>
vars == <<windowVars, densityVars, barVars, midiVars, trackVars, encodeVars>>

notWindow  == <<densityVars, barVars, midiVars, trackVars, encodeVars>>
notDensity == <<windowVars, barVars, midiVars, trackVars, encodeVars>>
notBar     == <<windowVars, densityVars, midiVars, trackVars, encodeVars>>
notMidi    == <<windowVars, densityVars, barVars, trackVars, encodeVars>>
notTrack   == <<windowVars, densityVars, barVars, encodeVars, file_index, song_data,
                songs_data, songs_data_train, songs_data_valid, file_log, m_pc>>
notEncode  == <<densityVars, barVars, midiVars, trackVars>>

-----------------------------------------------------------------------------
(* Bounds of the model.                                                    *)
MaxBars == 10
MaxWindow == 4
MaxHop == 3
MaxBins == 5
MaxDistLen == 3
MaxCount == 4
MaxBarNotes == 2
MaxBarIndex == 1
MaxFiles == 2
MaxTracks == 1
MaxSongBars == 3
MaxSongWindow == 2
MaxSongHop == 2
MaxMsgs == 4

-----------------------------------------------------------------------------
(* Python built-ins used by the code.                                      *)

Min(a, b) == IF a <= b THEN a ELSE b
Max(a, b) == IF a >= b THEN a ELSE b

\* list(range(start, stop, step)) for step > 0
Range(start, stop, step) ==
    LET n == IF stop > start THEN (stop - start + step - 1) \div step ELSE 0
    IN  [k \in 1..n |-> start + (k - 1) * step]

\* list(zip(xs, ys)): pairs up to the end of the shorter list
Zip(xs, ys) == [k \in 1..Min(Len(xs), Len(ys)) |-> <<xs[k], ys[k]>>]

\* xs[lo:hi] for 0 <= lo <= hi (Python slice, 0-based, end exclusive, clipped)
Slice(xs, lo, hi) == SubSeq(xs, lo + 1, Min(hi, Len(xs)))

\* insert x into the sorted list xs after every element not greater than it
RECURSIVE InsertSorted(_, _)
InsertSorted(x, xs) ==
    IF xs = <<>> THEN <<x>>
    ELSE IF Head(xs) <= x THEN <<Head(xs)>> \o InsertSorted(x, Tail(xs))
    ELSE <<x>> \o xs

RECURSIVE SortInts(_)
SortInts(xs) == IF xs = <<>> THEN <<>>
                ELSE InsertSorted(xs[Len(xs)], SortInts(SubSeq(xs, 1, Len(xs) - 1)))

-----------------------------------------------------------------------------
(* encode.py: get_bar_indices                                              *)

get_bar_indices_keep_last(b, w, h) ==
    Zip(Range(0, b, h), Range(w, b + 1, h))

get_bar_indices(b, w, h) ==
    Zip(Range(0, b, h), Range(w, b, h))

InitWindow ==
    /\ bars \in 0..MaxBars
    /\ window_size_bars \in 1..MaxWindow
    /\ hop_length_bars \in 1..MaxHop
    /\ bar_indices = <<>>
    /\ w_pc = "call"

GetBarIndices ==
    /\ w_pc = "call"
    /\ bar_indices' = get_bar_indices(bars, window_size_bars, hop_length_bars)
    /\ w_pc' = "done"
    /\ UNCHANGED <<bars, window_size_bars, hop_length_bars>>
    /\ UNCHANGED notWindow

-----------------------------------------------------------------------------
(* encode.py: get_density_bins (the quantile loop) and the density bucket  *)
(* of encode_track_data.  Edges are real numbers in the code; the model    *)
(* holds them exactly, in hundredths (an edge e is the integer 100 * e).   *)

\* np.percentile(a, q), linear interpolation, times 100:
\* the virtual index is q/100 * (n-1); lo is its floor
Percentile100(a, q) ==
    LET s  == SortInts(a)
        n  == Len(s)
        lo == (q * (n - 1)) \div 100
        hi == Min(lo + 1, n - 1)
    IN  100 * s[lo + 1] + (q * (n - 1) - 100 * lo) * (s[hi + 1] - s[lo + 1])

\* the loop variable of "for i in range(100 // bins, 100, 100 // bins)"
QuantilePercents(b) == Range(100 \div b, 100, 100 \div b)

get_density_bins(dist, b) ==
    [k \in 1..Len(QuantilePercents(b)) |-> Percentile100(dist, QuantilePercents(b)[k])]

\* np.digitize(x, edges) with right=False on non-decreasing edges:
\* the first index i (0-based) with x < edges[i], len(edges) if there is none
RECURSIVE DigitizeFrom_right_closed(_, _, _)
DigitizeFrom_right_closed(x100, edges, i) ==
    IF i > Len(edges) THEN Len(edges)
    ELSE IF x100 <= edges[i] THEN i - 1
    ELSE DigitizeFrom_right_closed(x100, edges, i + 1)

RECURSIVE DigitizeFrom(_, _, _)
DigitizeFrom(x100, edges, i) ==
    IF i > Len(edges) THEN Len(edges)
    ELSE IF x100 < edges[i] THEN i - 1
    ELSE DigitizeFrom(x100, edges, i + 1)

Digitize(x, edges) == DigitizeFrom(100 * x, edges, 1)

DensityToken(on_count, edges) == "DENSITY=" \o ToString(Digitize(on_count, edges))

Distributions ==
    UNION {[1..n -> 1..MaxCount] : n \in 1..MaxDistLen}

InitDensity ==
    /\ distribution \in Distributions
    /\ bins \in 2..MaxBins
    /\ percents = <<>>
    /\ quantiles = <<>>
    /\ note_on_events = 0
    /\ density_token = ""
    /\ d_pc = "call"

GetDensityBins ==
    /\ d_pc = "call"
    /\ percents' = QuantilePercents(bins)
    /\ quantiles' = get_density_bins(distribution, bins)
    /\ d_pc' = "binned"
    /\ UNCHANGED <<distribution, bins, note_on_events, density_token>>
    /\ UNCHANGED notDensity

DetermineDensity ==
    /\ d_pc = "binned"
    /\ \E c \in 0..(MaxCount + 1) :
          /\ note_on_events' = c
          /\ density_token' = DensityToken(c, quantiles)
    /\ d_pc' = "bucketed"
    /\ UNCHANGED <<distribution, bins, percents, quantiles>>
    /\ UNCHANGED notDensity

-----------------------------------------------------------------------------
(* preprocess_midi.py: constants                                           *)

TICKS_PER_BEAT == 1000
BEATS_PER_BAR == 4
TICKS_PER_BAR == TICKS_PER_BEAT * BEATS_PER_BAR
SIXTEENTH_TICKS == 250

(* A time in sixteenth-note units is ticks / 250, a real number in the     *)
(* code.  The model holds it exactly as a mixed number: q whole sixteenths *)
(* and r/250 of one, 0 <= r < 250.                                         *)

ToSixteenth(ticks) == [q |-> ticks \div SIXTEENTH_TICKS, r |-> ticks % SIXTEENTH_TICKS]

SixteenthZero == [q |-> 0, r |-> 0]

SixteenthLess(a, b) == a.q < b.q \/ (a.q = b.q /\ a.r < b.r)

SixteenthSub(a, b) ==
    LET borrow == IF a.r < b.r THEN 1 ELSE 0
    IN  [q |-> a.q - b.q - borrow, r |-> a.r - b.r + borrow * SIXTEENTH_TICKS]

(* A bar is {"events": [...]} or, once masked, {"events": "bar_fill"}.     *)
(* The two shapes of the "events" field are told apart by a tag.           *)

NormalBar(events) == [kind |-> "events", events |-> events]
FillBar == [kind |-> "bar_fill", events |-> <<>>]
IsBarFill(bar) == bar.kind = "bar_fill"

NoteEvent(type, pitch) == [type |-> type, pitch |-> pitch]
TimeDelta(delta) == [type |-> "TIME_DELTA", delta |-> delta]

-----------------------------------------------------------------------------
(* preprocess_midi.py: events_to_events_data, notes_to_bar_data            *)

\* sorted(events, key=lambda e: e[2]): stable, ascending in time
RECURSIVE InsertByTime(_, _)
InsertByTime(e, sorted) ==
    IF sorted = <<>> THEN <<e>>
    ELSE IF SixteenthLess(e[3], Head(sorted)[3]) THEN <<e>> \o sorted
    ELSE <<Head(sorted)>> \o InsertByTime(e, Tail(sorted))

RECURSIVE SortedByTime(_)
SortedByTime(events) ==
    IF events = <<>> THEN <<>>
    ELSE InsertByTime(events[Len(events)],
                      SortedByTime(SubSeq(events, 1, Len(events) - 1)))

\* one pass of the loop body, for the i-th (1-based) sorted event
EventsOfIndex_no_first_delta(sorted, i) ==
    LET time == sorted[i][3]
        gap  == SixteenthSub(sorted[i + 1][3], time)
    IN  <<NoteEvent(sorted[i][1], sorted[i][2])>>
        \o (IF i < Len(sorted) /\ SixteenthLess(SixteenthZero, gap)
            THEN <<TimeDelta(gap)>> ELSE <<>>)

EventsOfIndex(sorted, i) ==
    LET time == sorted[i][3]
        gap  == SixteenthSub(sorted[i + 1][3], time)
    IN  (IF i = 1 /\ SixteenthLess(SixteenthZero, time)
         THEN <<TimeDelta(time)>> ELSE <<>>)
        \o <<NoteEvent(sorted[i][1], sorted[i][2])>>
        \o (IF i < Len(sorted) /\ SixteenthLess(SixteenthZero, gap)
            THEN <<TimeDelta(gap)>> ELSE <<>>)

RECURSIVE EventsFrom(_, _)
EventsFrom(sorted, i) ==
    IF i > Len(sorted) THEN <<>>
    ELSE EventsOfIndex(sorted, i) \o EventsFrom(sorted, i + 1)

events_to_events_data(events) ==
    IF events = <<>> THEN <<>> ELSE EventsFrom(SortedByTime(events), 1)

\* the (type, pitch, time) tuples of one note of the bar
NoteMarkers(note, bar_start_tick) ==
    LET start_in_bar == Max(0, note.start - bar_start_tick)
        end_in_bar   == Min(TICKS_PER_BAR, note.end - bar_start_tick)
    IN  << <<"NOTE_ON", note.pitch, ToSixteenth(start_in_bar)>>,
           <<"NOTE_OFF", note.pitch, ToSixteenth(end_in_bar)>> >>

RECURSIVE MarkersOf(_, _)
MarkersOf(bar_notes, bar_start_tick) ==
    IF bar_notes = <<>> THEN <<>>
    ELSE NoteMarkers(Head(bar_notes), bar_start_tick)
         \o MarkersOf(Tail(bar_notes), bar_start_tick)

InBar_touching(note, bar_start_tick, bar_end_tick) ==
    note.start <= bar_end_tick /\ note.end >= bar_start_tick

InBar(note, bar_start_tick, bar_end_tick) ==
    note.start < bar_end_tick /\ note.end > bar_start_tick

notes_to_bar_data(notes, bar_start_tick, bar_end_tick) ==
    LET bar_notes == SelectSeq(notes, LAMBDA n : InBar(n, bar_start_tick, bar_end_tick))
    IN  NormalBar(events_to_events_data(MarkersOf(bar_notes, bar_start_tick)))

\* ticks and pitches the bounded inputs are drawn from: on and off the bar
\* line, on and off the sixteenth grid
NoteTicks == {0, 300, TICKS_PER_BAR, TICKS_PER_BAR + 300}
NotePitches == {60, 62}
Notes == {n \in [pitch : NotePitches, start : NoteTicks, end : NoteTicks] :
            n.start <= n.end}

InitBar ==
    /\ b_notes \in UNION {[1..n -> Notes] : n \in 0..MaxBarNotes}
    /\ b_index \in 0..MaxBarIndex
    /\ b_bar = NormalBar(<<>>)
    /\ b_pc = "call"

NotesToBarData ==
    /\ b_pc = "call"
    /\ b_bar' = notes_to_bar_data(b_notes, b_index * TICKS_PER_BAR,
                                  (b_index + 1) * TICKS_PER_BAR)
    /\ b_pc' = "done"
    /\ UNCHANGED <<b_notes, b_index>>
    /\ UNCHANGED notBar

-----------------------------------------------------------------------------
(* preprocess_midi.py: preprocess_midi_file, preprocess_midi_folder        *)

\* Python dict as a function on the set of its keys
EmptyDict == <<>>
DictPut(d, k, v) == [x \in DOMAIN d \cup {k} |-> IF x = k THEN v ELSE d[x]]
DictDel(d, k) == [x \in DOMAIN d \ {k} |-> d[x]]

\* channel -> instrument, in the dict's insertion order
CHANNEL_TO_INSTRUMENT ==
    << [channel |-> 0, name |-> "Piano", number |-> 0],
       [channel |-> 3, name |-> "Violin", number |-> 1] >>

\* the return value None
None == [title |-> 0, tracks |-> <<>>]

\* one pass of "for msg in track" (lines 85-108) on the state
\* st = [current_tick, note_on_times, channel_notes]
ProcessMsg_keep_first(st, msg) ==
    LET tick == st.current_tick + msg.time
        key  == <<msg.channel, msg.note>>
    IN  IF msg.type = "note_on" /\ msg.velocity > 0
        THEN [st EXCEPT !.current_tick = tick,
                        !.note_on_times = IF key \in DOMAIN @ THEN @
                                          ELSE DictPut(@, key, tick)]
        ELSE IF msg.type = "note_off" \/ (msg.type = "note_on" /\ msg.velocity = 0)
        THEN IF key \in DOMAIN st.note_on_times
             THEN LET note == [pitch |-> msg.note,
                               start |-> st.note_on_times[key],
                               end   |-> tick]
                      old  == IF msg.channel \in DOMAIN st.channel_notes
                              THEN st.channel_notes[msg.channel] ELSE <<>>
                  IN  [current_tick  |-> tick,
                       note_on_times |-> DictDel(st.note_on_times, key),
                       channel_notes |-> DictPut(st.channel_notes, msg.channel,
                                                 Append(old, note))]
             ELSE [st EXCEPT !.current_tick = tick]
        ELSE [st EXCEPT !.current_tick = tick]

ProcessMsg(st, msg) ==
    LET tick == st.current_tick + msg.time
        key  == <<msg.channel, msg.note>>
    IN  IF msg.type = "note_on" /\ msg.velocity > 0
        THEN [st EXCEPT !.current_tick = tick,
                        !.note_on_times = DictPut(@, key, tick)]
        ELSE IF msg.type = "note_off" \/ (msg.type = "note_on" /\ msg.velocity = 0)
        THEN IF key \in DOMAIN st.note_on_times
             THEN LET note == [pitch |-> msg.note,
                               start |-> st.note_on_times[key],
                               end   |-> tick]
                      old  == IF msg.channel \in DOMAIN st.channel_notes
                              THEN st.channel_notes[msg.channel] ELSE <<>>
                  IN  [current_tick  |-> tick,
                       note_on_times |-> DictDel(st.note_on_times, key),
                       channel_notes |-> DictPut(st.channel_notes, msg.channel,
                                                 Append(old, note))]
             ELSE [st EXCEPT !.current_tick = tick]
        ELSE [st EXCEPT !.current_tick = tick]

RECURSIVE ProcessMsgs(_, _)
ProcessMsgs(st, msgs) ==
    IF msgs = <<>> THEN st
    ELSE ProcessMsgs(ProcessMsg(st, Head(msgs)), Tail(msgs))

\* "for track in mid.tracks" (lines 81-108): clock and pending note-ons
\* start afresh in every track, channel_notes is shared by the tracks
RECURSIVE ProcessTracks(_, _)
ProcessTracks(notes, tracks) ==
    IF tracks = <<>> THEN notes
    ELSE ProcessTracks(
            ProcessMsgs([current_tick |-> 0, note_on_times |-> EmptyDict,
                         channel_notes |-> notes], Head(tracks)).channel_notes,
            Tail(tracks))

\* lines 110-113
MissingChannel_both_needed(notes) == 0 \notin DOMAIN notes /\ 3 \notin DOMAIN notes

MissingChannel(notes) == 0 \notin DOMAIN notes \/ 3 \notin DOMAIN notes

\* lines 116-119
MaxTick_configured_only(notes) ==
    LET ends == {0} \cup UNION {{notes[c][i].end : i \in 1..Len(notes[c])} :
                                c \in DOMAIN notes \cap {0, 3}}
    IN  CHOOSE m \in ends : \A e \in ends : e <= m

MaxTick(notes) ==
    LET ends == {0} \cup UNION {{notes[c][i].end : i \in 1..Len(notes[c])} :
                                c \in DOMAIN notes}
    IN  CHOOSE m \in ends : \A e \in ends : e <= m

\* lines 122-148
BuildSong(filename, notes) ==
    LET num_bars == (MaxTick(notes) \div TICKS_PER_BAR) + 1
        TrackOf(info) ==
            LET ns == IF info.channel \in DOMAIN notes THEN notes[info.channel] ELSE <<>>
            IN  [name   |-> info.name,
                 number |-> info.number,
                 bars   |-> [b \in 1..num_bars |->
                               notes_to_bar_data(ns, (b - 1) * TICKS_PER_BAR,
                                                 b * TICKS_PER_BAR)]]
    IN  [title  |-> filename,
         tracks |-> [k \in 1..Len(CHANNEL_TO_INSTRUMENT) |->
                        TrackOf(CHANNEL_TO_INSTRUMENT[k])]]

\* preprocess_midi_file on a file [readable, tracks] named filename
ExtractNotes(file) ==
    IF file.readable THEN ProcessTracks(EmptyDict, file.tracks) ELSE EmptyDict

preprocess_midi_file(filename, file) ==
    IF ~file.readable THEN None
    ELSE IF MissingChannel(ExtractNotes(file)) THEN None
    ELSE BuildSong(filename, ExtractNotes(file))

\* MIDI messages and the track streams the files are made of
NoteOn(time, channel, note) ==
    [type |-> "note_on", time |-> time, channel |-> channel, note |-> note, velocity |-> 64]
NoteOnZero(time, channel, note) ==
    [type |-> "note_on", time |-> time, channel |-> channel, note |-> note, velocity |-> 0]
NoteOff(time, channel, note) ==
    [type |-> "note_off", time |-> time, channel |-> channel, note |-> note, velocity |-> 0]
Control(time) ==
    [type |-> "control_change", time |-> time, channel |-> 0, note |-> 0, velocity |-> 0]

TrackStreams ==
    { <<>>,
      \* piano 0..1500
      <<NoteOn(0, 0, 60), NoteOff(1500, 0, 60)>>,
      \* violin 2000..4500, over the bar line, closed by a zero-velocity note-on
      <<NoteOn(2000, 3, 62), NoteOnZero(2500, 3, 62)>>,
      \* piano 0..4000 ending on the bar line, violin 1000..4500
      <<NoteOn(0, 0, 60), NoteOn(1000, 3, 62), NoteOff(3000, 0, 60), NoteOff(500, 3, 62)>>,
      \* violin 0..300, piano 300..8300
      <<NoteOn(0, 3, 62), NoteOn(300, 0, 60), NoteOff(0, 3, 62), NoteOff(8000, 0, 60)>>,
      \* a channel without instrument: 500..9500
      <<Control(500), NoteOn(0, 9, 36), NoteOff(9000, 9, 36)>>,
      \* piano and violin 0..1000, a longer note on a channel without instrument
      <<NoteOn(0, 0, 60), NoteOn(0, 3, 62), NoteOn(0, 9, 36), NoteOff(1000, 0, 60),
        NoteOff(0, 3, 62), NoteOff(4000, 9, 36)>>,
      \* a violin note that is never closed
      <<NoteOn(0, 3, 62)>>,
      \* piano struck again while sounding, then closed twice
      <<NoteOn(0, 0, 60), NoteOn(250, 0, 60), NoteOff(250, 0, 60), NoteOff(250, 0, 60)>>,
      \* notes closed at the tick they are struck at: piano 0..0 and 300..300,
      \* violin 4000..4000 on the bar line
      <<NoteOn(0, 0, 60), NoteOff(0, 0, 60), NoteOn(300, 0, 62), NoteOff(0, 0, 62),
        NoteOn(3700, 3, 62), NoteOff(0, 3, 62)>> }

MidiFiles ==
    {[readable |-> FALSE, tracks |-> <<>>]}
    \cup {[readable |-> TRUE, tracks |-> t] :
            t \in UNION {[1..n -> TrackStreams] : n \in 0..MaxTracks}}

\* the channels of a file on which some track holds a positive-velocity
\* note-on followed later by a note-off (or zero-velocity note-on) of the
\* same channel and pitch
Closes(msg) == msg.type = "note_off" \/ (msg.type = "note_on" /\ msg.velocity = 0)
ChannelsWithNotes(file) ==
    {c \in {0, 3, 9} :
        \E t \in 1..Len(file.tracks) :
           \E i \in 1..Len(file.tracks[t]) : \E j \in (i + 1)..Len(file.tracks[t]) :
              /\ file.tracks[t][i].type = "note_on" /\ file.tracks[t][i].velocity > 0
              /\ file.tracks[t][i].channel = c
              /\ Closes(file.tracks[t][j])
              /\ file.tracks[t][j].channel = c
              /\ file.tracks[t][j].note = file.tracks[t][i].note}

InitMidi ==
    /\ file_index = 0
    /\ channel_notes = EmptyDict
    /\ song_data = None
    /\ songs_data = <<>>
    /\ songs_data_train = <<>>
    /\ songs_data_valid = <<>>
    /\ file_log = <<>>
    /\ m_pc = "loop"

\* one pass of "for midi_path in midi_files" (lines 38-41); the file's name
\* is its place in the sorted listing
PreprocessFile ==
    /\ m_pc = "loop"
    /\ file_index < MaxFiles
    /\ \E file \in MidiFiles :
          LET filename == file_index + 1
              song     == preprocess_midi_file(filename, file)
          IN  /\ channel_notes' = ExtractNotes(file)
              /\ song_data' = song
              /\ songs_data' = IF song # None THEN Append(songs_data, song)
                               ELSE songs_data
              /\ file_log' = Append(file_log,
                                    [name |-> filename, readable |-> file.readable,
                                     with_notes |-> ChannelsWithNotes(file)])
    /\ file_index' = file_index + 1
    /\ UNCHANGED <<songs_data_train, songs_data_valid, m_pc>>
    /\ UNCHANGED notMidi

\* the listing is exhausted: lines 45-53, train_ratio = 0.8
SplitSongs ==
    /\ m_pc = "loop"
    /\ LET split_index == (Len(songs_data) * 8) \div 10
       IN  /\ songs_data_train' = SubSeq(songs_data, 1, split_index)
           /\ songs_data_valid' = SubSeq(songs_data, split_index + 1, Len(songs_data))
    /\ m_pc' = "done"
    /\ UNCHANGED <<file_index, channel_notes, song_data, songs_data, file_log>>
    /\ UNCHANGED notMidi

-----------------------------------------------------------------------------
(* preprocess_midi.py: the message loop of preprocess_midi_file (lines     *)
(* 81-108) on one track, one message per step                              *)

\* the (channel, pitch) keys and the messages the track is made of: two keys
\* share the channel, two share the pitch
TrackKeys == {<<0, 60>>, <<3, 60>>, <<3, 62>>}

TrackMsgs ==
    UNION {{NoteOn(250, k[1], k[2]), NoteOnZero(0, k[1], k[2]), NoteOff(250, k[1], k[2])} :
             k \in TrackKeys}
    \cup {Control(250)}

InitTrack ==
    /\ current_tick = 0
    /\ note_on_times = EmptyDict
    /\ msg_log = <<>>
    /\ t_pc = "loop"

\* one pass of "for msg in track" (lines 85-108)
ReadMsg ==
    /\ t_pc = "loop"
    /\ Len(msg_log) < MaxMsgs
    /\ \E msg \in TrackMsgs :
          LET st == ProcessMsg([current_tick  |-> current_tick,
                                note_on_times |-> note_on_times,
                                channel_notes |-> channel_notes], msg)
          IN  /\ current_tick' = st.current_tick
              /\ note_on_times' = st.note_on_times
              /\ channel_notes' = st.channel_notes
              /\ msg_log' = Append(msg_log, msg)
    /\ UNCHANGED t_pc
    /\ UNCHANGED notTrack

\* the track is exhausted: the pending note-ons are dropped with the dict
EndOfTrack ==
    /\ t_pc = "loop"
    /\ t_pc' = "done"
    /\ note_on_times' = EmptyDict
    /\ UNCHANGED <<current_tick, channel_notes, msg_log>>
    /\ UNCHANGED notTrack

-----------------------------------------------------------------------------
(* encode.py: encode_event_data, encode_bar_data, encode_track_data,       *)
(* encode_song_data                                                        *)

\* str(delta): the whole sixteenths, a point, the count of 1/250 sixteenths
DeltaString(delta) == ToString(delta.q) \o "." \o ToString(delta.r)

\* encode_event_data: the list holding the token, empty where it returns None
encode_event_data(event_data, transposition) ==
    IF event_data.type = "NOTE_ON"
    THEN <<"NOTE_ON=" \o ToString(event_data.pitch + transposition)>>
    ELSE IF event_data.type = "NOTE_OFF"
    THEN <<"NOTE_OFF=" \o ToString(event_data.pitch + transposition)>>
    ELSE IF event_data.type = "TIME_DELTA"
    THEN <<"TIME_DELTA=" \o DeltaString(event_data.delta)>>
    ELSE <<>>

RECURSIVE EncodeEvents(_, _)
EncodeEvents(events, transposition) ==
    IF events = <<>> THEN <<>>
    ELSE encode_event_data(Head(events), transposition)
         \o EncodeEvents(Tail(events), transposition)

encode_bar_data(bar_data, transposition, as_fill) ==
    <<IF ~as_fill THEN "BAR_START" ELSE "FILL_START">>
    \o (IF IsBarFill(bar_data) THEN <<"FILL_IN">>
        ELSE EncodeEvents(bar_data.events, transposition))
    \o <<IF ~as_fill THEN "BAR_END" ELSE "FILL_END">>

RECURSIVE EncodeBars(_, _)
EncodeBars(bars_data, transposition) ==
    IF bars_data = <<>> THEN <<>>
    ELSE encode_bar_data(Head(bars_data), transposition, FALSE)
         \o EncodeBars(Tail(bars_data), transposition)

\* lines 174-181
RECURSIVE CountNoteOn(_)
CountNoteOn(bars_data) ==
    IF bars_data = <<>> THEN 0
    ELSE (IF IsBarFill(Head(bars_data)) THEN 0
          ELSE Len(SelectSeq(Head(bars_data).events, LAMBDA e : e.type = "NOTE_ON")))
         + CountNoteOn(Tail(bars_data))

encode_track_data_density_first(track_data, edges, bar_start_index, bar_end_index, transposition) ==
    LET window == Slice(track_data.bars, bar_start_index, bar_end_index)
        shift  == IF ~track_data.drums THEN transposition ELSE 0
    IN  <<"TRACK_START">>
        \o <<DensityToken(CountNoteOn(window), edges)>>
        \o <<IF ~track_data.drums THEN "INST=" \o ToString(track_data.number)
             ELSE "INST=DRUMS">>
        \o EncodeBars(window, shift)
        \o <<"TRACK_END">>

encode_track_data(track_data, edges, bar_start_index, bar_end_index, transposition) ==
    LET window == Slice(track_data.bars, bar_start_index, bar_end_index)
        shift  == IF ~track_data.drums THEN transposition ELSE 0
    IN  <<"TRACK_START">>
        \o <<IF ~track_data.drums THEN "INST=" \o ToString(track_data.number)
             ELSE "INST=DRUMS">>
        \o <<DensityToken(CountNoteOn(window), edges)>>
        \o EncodeBars(window, shift)
        \o <<"TRACK_END">>

get_bars_number(song) ==
    LET lens == {Len(song.tracks[t].bars) : t \in 1..Len(song.tracks)}
    IN  CHOOSE m \in lens : \A n \in lens : n <= m

\* copy.deepcopy(song_data) (line 77): what the caller's song is after the
\* copy has been masked
SongAfterMasking_shared(original, masked_copy) == masked_copy

SongAfterMasking(original, masked_copy) == original

\* bar_data_fill = None
NoBar == [kind |-> "none", events |-> <<>>]

\* lines 86-90: masking of bar bar_choice (0-based, counted from the window
\* start) of track track_choice
BarFillBackup_after_masking(song, track_choice, bar_index) == FillBar

BarFillBackup(song, track_choice, bar_index) == song.tracks[track_choice].bars[bar_index]

MaskBar(song, track_choice, bar_index) ==
    [song EXCEPT !.tracks[track_choice].bars[bar_index] = FillBar]

\* lines 98-102: index of the first track with that number, 0 for None
fill_track_index_first_by_default(song, number) ==
    LET hits == {t \in 1..Len(song.tracks) : song.tracks[t].number = number}
    IN  IF hits = {} THEN 1 ELSE CHOOSE t \in hits : \A u \in hits : t <= u

fill_track_index(song, number) ==
    LET hits == {t \in 1..Len(song.tracks) : song.tracks[t].number = number}
    IN  IF hits = {} THEN 0 ELSE CHOOSE t \in hits : \A u \in hits : t <= u

\* lines 105-111
TrackFillBackup(song, index, bar_start_index, bar_end_index) ==
    IF index = 0 THEN <<>>
    ELSE Slice(song.tracks[index].bars, bar_start_index, bar_end_index)

MaskTrack(song, index, bar_start_index, bar_end_index) ==
    IF index = 0 THEN song
    ELSE [song EXCEPT !.tracks[index].bars =
            [b \in 1..Len(@) |->
                IF b > bar_start_index /\ b <= bar_end_index THEN FillBar ELSE @[b]]]

RECURSIVE Flatten(_)
Flatten(lists) == IF lists = <<>> THEN <<>> ELSE Head(lists) \o Flatten(Tail(lists))

\* lines 139-148
RECURSIVE BackupEvents(_, _)
BackupEvents(backup, transposition) ==
    IF backup = <<>> THEN <<>>
    ELSE (IF ~IsBarFill(Head(backup))
          THEN EncodeEvents(Head(backup).events, transposition) ELSE <<>>)
         \o BackupEvents(Tail(backup), transposition)

TrackFillAnswer_per_bar(backup, transposition) ==
    Flatten([k \in 1..Len(backup) |-> encode_bar_data(backup[k], transposition, TRUE)])

TrackFillAnswer(backup, transposition) ==
    <<"FILL_START">> \o BackupEvents(backup, transposition) \o <<"FILL_END">>

\* random.shuffle: any order of the track indices
Orders(n) == {p \in [1..n -> 1..n] : \A i, j \in 1..n : p[i] = p[j] => i = j}

\* the songs, transposition lists and density edges of the bounded inputs:
\* bar k of the piano holds one short note of pitch 59 + k, bar k of the
\* violin is empty or holds one note of pitch 71 + k that starts off the
\* sixteenth grid and sounds to the end of the bar
PianoBar(k) ==
    notes_to_bar_data(<<[pitch |-> 59 + k, start |-> (k - 1) * TICKS_PER_BAR,
                         end |-> (k - 1) * TICKS_PER_BAR + 1000]>>,
                      (k - 1) * TICKS_PER_BAR, k * TICKS_PER_BAR)

ViolinBars(k) ==
    {notes_to_bar_data(ns, (k - 1) * TICKS_PER_BAR, k * TICKS_PER_BAR) :
        ns \in {<<>>, <<[pitch |-> 71 + k, start |-> (k - 1) * TICKS_PER_BAR + 300,
                         end |-> k * TICKS_PER_BAR + 500]>>}}

Songs ==
    UNION {
      {[title  |-> 1,
        tracks |-> << [name |-> "Piano", number |-> 0, drums |-> FALSE,
                       bars |-> [k \in 1..n |-> PianoBar(k)]],
                      [name |-> "Violin", number |-> 1, drums |-> d, bars |-> v] >>] :
          v \in {f \in [1..n -> UNION {ViolinBars(k) : k \in 1..n}] :
                    \A k \in 1..n : f[k] \in ViolinBars(k)},
          d \in BOOLEAN} :
      n \in 1..MaxSongBars}

TranspositionLists == {<<0>>, <<-1, 2>>}
DensityEdges == {<<100, 150>>}

InitEncode ==
    /\ given_song \in Songs
    /\ caller_song = given_song
    /\ transpositions \in TranspositionLists
    /\ permute \in BOOLEAN
    /\ density_bins \in DensityEdges
    /\ bar_fill \in BOOLEAN
    /\ track_fill \in BOOLEAN
    /\ fill_track_number \in IF track_fill THEN {1, 2} ELSE {1}
    /\ window_size_bars \in 1..MaxSongWindow
    /\ hop_length_bars \in 1..MaxSongHop
    /\ bars = 0
    /\ bar_indices = <<>>
    /\ w_pc = "idle"
    /\ count = 0
    /\ song_data_copy = given_song
    /\ bar_data_fill = NoBar
    /\ fill_bars_backup = <<>>
    /\ token_sequences = <<>>
    /\ sample_log = <<>>
    /\ e_pc = "start"

\* lines 63-73, and line 154 when there is no combination
EncodeStart ==
    /\ e_pc = "start"
    /\ bars' = get_bars_number(caller_song)
    /\ bar_indices' = get_bar_indices(get_bars_number(caller_song),
                                      window_size_bars, hop_length_bars)
    /\ count' = 0
    /\ token_sequences' = <<>>
    /\ e_pc' = IF Len(get_bar_indices(get_bars_number(caller_song), window_size_bars,
                                      hop_length_bars)) * Len(transpositions) = 0
               THEN "done" ELSE "loop"
    /\ UNCHANGED <<window_size_bars, hop_length_bars, w_pc>>
    /\ UNCHANGED <<given_song, caller_song, transpositions, permute, density_bins,
                   bar_fill, track_fill, fill_track_number, song_data_copy,
                   bar_data_fill, fill_bars_backup, sample_log>>
    /\ UNCHANGED notEncode

\* the body of the loop over itertools.product(bar_indices, transpositions)
\* (lines 77-150) for one combination and one outcome of the draws of
\* random.choice (track_choice, bar_choice) and random.shuffle (order):
\* the masked copy, the backups and the parts of the token sequence
encode_combination(song, edges, bar_fill_on, track_fill_on, number, window, transposition, track_choice, bar_choice, order) ==
    LET bar_start_index == window[1]
        bar_end_index   == window[2]
        n_tracks    == Len(song.tracks)
        copy        == song
        bar_backup  == IF bar_fill_on
                       THEN BarFillBackup(copy, track_choice, bar_choice)
                       ELSE NoBar
        bar_masked  == IF bar_fill_on
                       THEN MaskBar(copy, track_choice, bar_choice)
                       ELSE copy
        index       == IF track_fill_on
                       THEN fill_track_index(bar_masked, number)
                       ELSE 0
        backup      == TrackFillBackup(bar_masked, index,
                                       bar_start_index, bar_end_index)
        masked      == MaskTrack(bar_masked, index,
                                 bar_start_index, bar_end_index)
        blocks      == [k \in 1..n_tracks |->
                          encode_track_data(masked.tracks[order[k]],
                                            edges, bar_start_index,
                                            bar_end_index, transposition)]
        bar_answer  == IF bar_fill_on /\ bar_backup # NoBar
                       THEN encode_bar_data(bar_backup, transposition, TRUE)
                       ELSE <<>>
        track_answer == IF track_fill_on /\ Len(backup) > 0
                        THEN TrackFillAnswer(backup, transposition)
                        ELSE <<>>
    IN  [masked         |-> masked,
         bar_backup     |-> bar_backup,
         backup         |-> backup,
         index          |-> index,
         blocks         |-> blocks,
         bar_answer     |-> bar_answer,
         track_answer   |-> track_answer,
         token_sequence |-> <<"PIECE_START">> \o Flatten(blocks)
                            \o bar_answer \o track_answer]

\* one pass of the loop over itertools.product(bar_indices, transpositions)
\* (lines 74-151), with the draws of random.choice and random.shuffle; the
\* last pass returns (line 154)
EncodeCombination ==
    /\ e_pc = "loop"
    /\ count < Len(bar_indices) * Len(transpositions)
    /\ LET window          == bar_indices[(count \div Len(transpositions)) + 1]
           bar_start_index == window[1]
           bar_end_index   == window[2]
           transposition   == transpositions[(count % Len(transpositions)) + 1]
           n_tracks        == Len(caller_song.tracks)
       IN  \E track_choice \in IF bar_fill THEN 1..n_tracks ELSE {0} :
           \E bar_choice \in IF bar_fill
                             THEN (bar_start_index + 1)..
                                  Min(bar_end_index,
                                      Len(caller_song.tracks[track_choice].bars))
                             ELSE {0} :
           \E order \in IF permute THEN Orders(n_tracks)
                        ELSE {[i \in 1..n_tracks |-> i]} :
           \E pass \in {encode_combination(caller_song, density_bins, bar_fill,
                                            track_fill, fill_track_number, window,
                                            transposition, track_choice, bar_choice,
                                            order)} :
                  /\ song_data_copy' = pass.masked
                  /\ caller_song' = SongAfterMasking(caller_song, pass.masked)
                  /\ bar_data_fill' = pass.bar_backup
                  /\ fill_bars_backup' = pass.backup
                  /\ token_sequences' = Append(token_sequences, pass.token_sequence)
                  /\ sample_log' = Append(sample_log,
                        [window        |-> window,
                         transposition |-> transposition,
                         track_choice  |-> track_choice,
                         bar_choice    |-> bar_choice,
                         fill_index    |-> pass.index,
                         order         |-> order,
                         blocks        |-> pass.blocks,
                         bar_answer    |-> pass.bar_answer,
                         track_answer  |-> pass.track_answer])
    /\ count' = count + 1
    /\ e_pc' = IF count + 1 = Len(bar_indices) * Len(transpositions)
               THEN "done" ELSE "loop"
    /\ UNCHANGED <<given_song, transpositions, permute, density_bins, bar_fill,
                   track_fill, fill_track_number>>
    /\ UNCHANGED windowVars
    /\ UNCHANGED notEncode

-----------------------------------------------------------------------------
(* Idle values of each machine's variables, for the specifications of the  *)
(* other machines.                                                         *)

IdleEncode ==
    /\ given_song = None /\ caller_song = None /\ transpositions = <<>>
    /\ permute = FALSE /\ density_bins = <<>> /\ bar_fill = FALSE
    /\ track_fill = FALSE /\ fill_track_number = 1 /\ count = 0
    /\ song_data_copy = None /\ bar_data_fill = NoBar /\ fill_bars_backup = <<>>
    /\ token_sequences = <<>> /\ sample_log = <<>> /\ e_pc = "idle"

IdleMidi ==
    /\ file_index = 0 /\ channel_notes = EmptyDict /\ song_data = None
    /\ songs_data = <<>> /\ songs_data_train = <<>> /\ songs_data_valid = <<>>
    /\ file_log = <<>> /\ m_pc = "idle"

IdleTrack ==
    /\ current_tick = 0 /\ note_on_times = EmptyDict /\ msg_log = <<>>
    /\ t_pc = "idle"

IdleBar ==
    /\ b_notes = <<>> /\ b_index = 0 /\ b_bar = NormalBar(<<>>) /\ b_pc = "idle"

IdleWindow ==
    /\ bars = 0 /\ window_size_bars = 1 /\ hop_length_bars = 1
    /\ bar_indices = <<>> /\ w_pc = "idle"

IdleDensity ==
    /\ distribution = <<>> /\ bins = 2 /\ percents = <<>> /\ quantiles = <<>>
    /\ note_on_events = 0 /\ density_token = "" /\ d_pc = "idle"

NextWindow == GetBarIndices

NextDensity == GetDensityBins \/ DetermineDensity

NextBar == NotesToBarData

NextMidi == PreprocessFile \/ SplitSongs

NextTrack == ReadMsg \/ EndOfTrack

NextEncode == EncodeStart \/ EncodeCombination

InitW == InitWindow /\ IdleDensity /\ IdleBar /\ IdleMidi /\ IdleTrack /\ IdleEncode
InitD == IdleWindow /\ InitDensity /\ IdleBar /\ IdleMidi /\ IdleTrack /\ IdleEncode
InitB == IdleWindow /\ IdleDensity /\ InitBar /\ IdleMidi /\ IdleTrack /\ IdleEncode
InitM == IdleWindow /\ IdleDensity /\ IdleBar /\ InitMidi /\ IdleTrack /\ IdleEncode
InitT == IdleWindow /\ IdleDensity /\ IdleBar /\ IdleMidi /\ InitTrack /\ IdleEncode
InitE == IdleDensity /\ IdleBar /\ IdleMidi /\ IdleTrack /\ InitEncode

SpecWindow == InitW /\ [][NextWindow]_vars

SpecDensity == InitD /\ [][NextDensity]_vars

SpecBar == InitB /\ [][NextBar]_vars

SpecMidi == InitM /\ [][NextMidi]_vars

SpecTrack == InitT /\ [][NextTrack]_vars

SpecEncode == InitE /\ [][NextEncode]_vars

-----------------------------------------------------------------------------
(* Properties of get_bar_indices (SpecWindow).                             *)

\* C3: a song whose bar count equals the window size yields exactly one
\* window covering all its bars: get_bar_indices(4, 4, 2) == [(0, 4)].
C3_OneWindowWhenBarsEqualWindow ==
    (w_pc = "done" /\ bars = 4 /\ window_size_bars = 4 /\ hop_length_bars = 2)
        => bar_indices = << <<0, 4>> >>

\* the k that keep both k*hop and window + k*hop below the number of bars
WindowSteps ==
    {k \in 0..bars : /\ k * hop_length_bars < bars
                      /\ window_size_bars + k * hop_length_bars < bars}

\* C13: get_bar_indices returns, in ascending order, exactly the pairs
\* (k*hop, window + k*hop), k = 0, 1, ..., taken while k*hop < bars and
\* window + k*hop < bars: every window is window_size_bars long and ends
\* before the last bar, none is clipped; (10, 4, 2) gives
\* [(0,4), (2,6), (4,8)] and (3, 4, 2) gives [].
C13_WindowsInsideSong ==
    w_pc = "done" =>
        /\ \A k \in WindowSteps : \A j \in 0..k : j \in WindowSteps
        /\ Len(bar_indices) = Cardinality(WindowSteps)
        /\ \A k \in WindowSteps :
              bar_indices[k + 1] = <<k * hop_length_bars,
                                     window_size_bars + k * hop_length_bars>>
        /\ \A i \in 1..Len(bar_indices) :
              /\ bar_indices[i][2] - bar_indices[i][1] = window_size_bars
              /\ 0 <= bar_indices[i][1] /\ bar_indices[i][2] < bars
        /\ \A i \in 1..(Len(bar_indices) - 1) : bar_indices[i][1] < bar_indices[i + 1][1]
        /\ (bars = 10 /\ window_size_bars = 4 /\ hop_length_bars = 2)
              => bar_indices = << <<0, 4>>, <<2, 6>>, <<4, 8>> >>
        /\ (bars = 3 /\ window_size_bars = 4 /\ hop_length_bars = 2)
              => bar_indices = <<>>

\* C13 witness: the call (10, 4, 2) has returned its three windows; the
\* start 6 has no end below 10 to go with and is dropped.
C13_Witness ==
    /\ w_pc = "done"
    /\ bars = 10 /\ window_size_bars = 4 /\ hop_length_bars = 2
    /\ Len(bar_indices) = 3

-----------------------------------------------------------------------------
(* Properties of the density bins (SpecDensity).                           *)

Bucketed == d_pc = "bucketed"

\* the smallest 0-based k with count <= edges[k], the number of edges if none
SmallestNotBelow(on_count, edges) ==
    IF \E k \in 1..Len(edges) : 100 * on_count <= edges[k]
    THEN (CHOOSE k \in 1..Len(edges) :
             /\ 100 * on_count <= edges[k]
             /\ \A j \in 1..(k - 1) : 100 * on_count > edges[j]) - 1
    ELSE Len(edges)

\* C6 (as claimed): the DENSITY index of a count c is the smallest k with
\* c <= edges[k], the last bucket when c exceeds every edge; a count equal
\* to edges[k] gets bucket k.
C6_SmallestEdgeNotBelow ==
    Bucketed =>
        density_token = "DENSITY=" \o ToString(SmallestNotBelow(note_on_events, quantiles))

\* C6 (amended): the DENSITY index of a count c is the number of edges that
\* are <= c, which is the smallest k with c < edges[k] and the last bucket
\* when no edge is above c; a count equal to edges[k] gets a bucket above k.
C6_CountOfEdgesNotAbove ==
    Bucketed =>
        LET below == {k \in 1..Len(quantiles) : quantiles[k] <= 100 * note_on_events}
            index == Cardinality(below)
        IN  /\ density_token = "DENSITY=" \o ToString(index)
            /\ \A k \in 1..Len(quantiles) :
                  /\ k <= index => quantiles[k] <= 100 * note_on_events
                  /\ k > index  => 100 * note_on_events < quantiles[k]
                  /\ quantiles[k] = 100 * note_on_events => index > k - 1

\* C6 witness: a count that is exactly equal to an edge has been bucketed.
C6_Witness ==
    /\ Bucketed
    /\ \E k \in 1..Len(quantiles) : quantiles[k] = 100 * note_on_events
    /\ \E k \in 1..Len(quantiles) : quantiles[k] > 100 * note_on_events

\* C7: for every bins >= 2 and non-empty distribution, get_density_bins
\* returns exactly bins-1 edges, the i-th taken at percentile 100*i/bins,
\* in non-decreasing order.
C7_BinsMinusOneEdges ==
    d_pc \in {"binned", "bucketed"} =>
        /\ Len(quantiles) = bins - 1
        /\ Len(percents) = bins - 1
        /\ \A i \in 1..Len(percents) : percents[i] * bins = 100 * i
        /\ \A i \in 1..(Len(quantiles) - 1) : quantiles[i] <= quantiles[i + 1]

-----------------------------------------------------------------------------
(* Properties of notes_to_bar_data (SpecBar).                              *)

DeltaTicks(event) ==
    IF event.type = "TIME_DELTA"
    THEN event.delta.q * SIXTEENTH_TICKS + event.delta.r
    ELSE 0

\* the TIME_DELTA amounts before position k of a bar's event list, in ticks
RECURSIVE TicksBefore(_, _)
TicksBefore(events, k) ==
    IF k <= 1 THEN 0
    ELSE TicksBefore(events, k - 1) + DeltaTicks(events[k - 1])

BarStartTick == b_index * TICKS_PER_BAR

OverlappingNotes ==
    {i \in 1..Len(b_notes) : /\ b_notes[i].start < BarStartTick + TICKS_PER_BAR
                             /\ b_notes[i].end > BarStartTick}

OnsetInBar(note)  == Max(note.start, BarStartTick) - BarStartTick
OffsetInBar(note) == Min(note.end, BarStartTick + TICKS_PER_BAR) - BarStartTick

MarkerPositions(events) ==
    {k \in 1..Len(events) : events[k].type \in {"NOTE_ON", "NOTE_OFF"}}

\* C10: in every bar produced by notes_to_bar_data, the TIME_DELTA amounts
\* before a NOTE_ON / NOTE_OFF marker add up to the marker's time relative
\* to bar start (the note's onset / offset tick, clipped to the bar), every
\* note of the bar has its two markers, and every TIME_DELTA is positive.
C10_RoundTripTiming ==
    b_pc = "done" =>
        LET events == b_bar.events
        IN  /\ \A k \in 1..Len(events) :
                  events[k].type = "TIME_DELTA" => DeltaTicks(events[k]) > 0
            /\ \A i \in OverlappingNotes :
                  /\ \E k \in MarkerPositions(events) :
                        /\ events[k] = NoteEvent("NOTE_ON", b_notes[i].pitch)
                        /\ TicksBefore(events, k) = OnsetInBar(b_notes[i])
                  /\ \E k \in MarkerPositions(events) :
                        /\ events[k] = NoteEvent("NOTE_OFF", b_notes[i].pitch)
                        /\ TicksBefore(events, k) = OffsetInBar(b_notes[i])
            /\ \A k \in MarkerPositions(events) :
                  \E i \in OverlappingNotes :
                     /\ events[k].pitch = b_notes[i].pitch
                     /\ \/ /\ events[k].type = "NOTE_ON"
                           /\ TicksBefore(events, k) = OnsetInBar(b_notes[i])
                        \/ /\ events[k].type = "NOTE_OFF"
                           /\ TicksBefore(events, k) = OffsetInBar(b_notes[i])
            /\ Cardinality(MarkerPositions(events)) = 2 * Cardinality(OverlappingNotes)

\* C10 witness: a bar holding a note that starts inside it, off the
\* sixteenth grid, and runs over the bar line, next to a second note.
C10_Witness ==
    /\ b_pc = "done"
    /\ Cardinality(OverlappingNotes) = 2
    /\ \E i \in OverlappingNotes :
          /\ b_notes[i].start > BarStartTick
          /\ b_notes[i].start % SIXTEENTH_TICKS # 0
          /\ b_notes[i].end > BarStartTick + TICKS_PER_BAR
    /\ b_bar.events[1].type = "TIME_DELTA"

\* the marker of the given type that note i is to leave in the bar asked for
MarkerClaimed(i, type) ==
    [type  |-> type,
     pitch |-> b_notes[i].pitch,
     ticks |-> IF type = "NOTE_ON"
               THEN Max(0, b_notes[i].start - BarStartTick)
               ELSE Min(TICKS_PER_BAR, b_notes[i].end - BarStartTick)]

\* the marker at position k of the bar's events, with its time in ticks
MarkerFound(events, k) ==
    [type |-> events[k].type, pitch |-> events[k].pitch, ticks |-> TicksBefore(events, k)]

\* C15: a note contributes to bar b exactly one NOTE_ON and one NOTE_OFF
\* marker when note.start < bar_end(b) and note.end > bar_start(b), and
\* nothing otherwise; the markers stand at max(0, start - bar_start) and
\* min(TICKS_PER_BAR, end - bar_start), and the bar holds as many NOTE_ON
\* (and NOTE_OFF) as notes overlap it.
C15_BarPartition ==
    b_pc = "done" =>
        LET events == b_bar.events
            Found(marker) ==
                Cardinality({k \in MarkerPositions(events) : MarkerFound(events, k) = marker})
            Claimed(marker) ==
                Cardinality({i \in OverlappingNotes : MarkerClaimed(i, marker.type) = marker})
        IN  /\ \A i \in OverlappingNotes : \A type \in {"NOTE_ON", "NOTE_OFF"} :
                  Found(MarkerClaimed(i, type)) = Claimed(MarkerClaimed(i, type))
            /\ \A k \in MarkerPositions(events) :
                  Found(MarkerFound(events, k)) = Claimed(MarkerFound(events, k))
            /\ Len(SelectSeq(events, LAMBDA e : e.type = "NOTE_ON"))
                  = Cardinality(OverlappingNotes)
            /\ Len(SelectSeq(events, LAMBDA e : e.type = "NOTE_OFF"))
                  = Cardinality(OverlappingNotes)
            /\ OverlappingNotes = {} => events = <<>>

\* C15 witness: the second bar is asked for; one note runs from the first
\* bar into it and is clipped at its start, another ends on the bar line
\* and leaves nothing.
C15_Witness ==
    /\ b_pc = "done" /\ b_index = 1
    /\ Len(b_notes) = 2
    /\ \E i, j \in 1..2 :
          /\ b_notes[i].start < BarStartTick /\ b_notes[i].end > BarStartTick
          /\ b_notes[j].start < BarStartTick /\ b_notes[j].end = BarStartTick
    /\ Cardinality(OverlappingNotes) = 1
    /\ Len(b_bar.events) = 3
    /\ b_bar.events[1].type = "NOTE_ON"

-----------------------------------------------------------------------------
(* Properties of preprocess_midi_folder / preprocess_midi_file (SpecMidi). *)

\* a file that can be read and holds a completed note on channel 0 and on
\* channel 3
Extractable(entry) ==
    entry.readable /\ 0 \in entry.with_notes /\ 3 \in entry.with_notes

\* C8: preprocess_midi_file yields None whenever channel 0 or channel 3
\* produced no completed note (or the file cannot be read); the folder loop
\* skips that file and goes on, so songs_data holds exactly the songs of the
\* extractable files, in the order of the sorted listing.
C8_FailureIsolation ==
    /\ Len(file_log) = file_index
    /\ file_index > 0 =>
          (song_data = None <=> ~Extractable(file_log[file_index]))
    /\ LET kept == SelectSeq(file_log, Extractable)
       IN  /\ Len(songs_data) = Len(kept)
           /\ \A k \in 1..Len(kept) :
                 /\ songs_data[k].title = kept[k].name
                 /\ songs_data[k] # None
    /\ m_pc = "done" => songs_data_train \o songs_data_valid = songs_data

\* C8 witness: the first file lacks violin notes and is skipped, the second
\* file is extracted and kept.
C8_Witness ==
    /\ Len(file_log) = 2
    /\ file_log[1].readable /\ file_log[1].with_notes = {0}
    /\ Extractable(file_log[2])
    /\ Len(songs_data) = 1
    /\ songs_data[1].title = 2

AllNoteEnds ==
    UNION {{channel_notes[c][i].end : i \in 1..Len(channel_notes[c])} :
            c \in DOMAIN channel_notes}

NoteEndsOfChannel(c) ==
    IF c \in DOMAIN channel_notes
    THEN {channel_notes[c][i].end : i \in 1..Len(channel_notes[c])}
    ELSE {}

\* C9: every track of a song produced by preprocess_midi_file has the same
\* number of bars, floor(max end_tick over all extracted notes /
\* TICKS_PER_BAR) + 1, and the bars of a track that start at or after the
\* end of its last note hold an empty event list.
C9_EqualBarCounts ==
    song_data # None =>
        LET n == Len(song_data.tracks[1].bars)
        IN  /\ \A t \in 1..Len(song_data.tracks) : Len(song_data.tracks[t].bars) = n
            /\ \E e \in AllNoteEnds : n = (e \div TICKS_PER_BAR) + 1
            /\ \A e \in AllNoteEnds : (e \div TICKS_PER_BAR) + 1 <= n
            /\ \A t \in 1..Len(song_data.tracks) : \A b \in 1..n :
                  (\A e \in NoteEndsOfChannel(CHANNEL_TO_INSTRUMENT[t].channel) :
                      e <= (b - 1) * TICKS_PER_BAR)
                  => song_data.tracks[t].bars[b] = NormalBar(<<>>)

\* C9 witness: the latest note is on a channel without instrument, and both
\* tracks are padded with an empty second bar.
C9_Witness ==
    /\ song_data # None
    /\ 9 \in DOMAIN channel_notes
    /\ \A t \in 1..Len(song_data.tracks) :
          /\ Len(song_data.tracks[t].bars) = 2
          /\ song_data.tracks[t].bars[1].events # <<>>
          /\ song_data.tracks[t].bars[2].events = <<>>

\* note has its NOTE_ON / NOTE_OFF pair, clipped to the bar, in the b-th bar
\* of the track
PairInBar(note, track, b) ==
    LET events    == track.bars[b].events
        bar_start == (b - 1) * TICKS_PER_BAR
    IN  /\ \E k \in MarkerPositions(events) :
              /\ events[k] = NoteEvent("NOTE_ON", note.pitch)
              /\ TicksBefore(events, k) = Max(0, note.start - bar_start)
        /\ \E k \in MarkerPositions(events) :
              /\ events[k] = NoteEvent("NOTE_OFF", note.pitch)
              /\ TicksBefore(events, k) = Min(TICKS_PER_BAR, note.end - bar_start)

\* C18: in a song built by preprocess_midi_file, every note extracted for a
\* configured channel, whatever its start <= end (of no length, or starting
\* or ending on a bar line), has its NOTE_ON / NOTE_OFF pair in at least
\* one bar of its track.
C18_NoNoteLost ==
    song_data # None =>
        \A t \in 1..Len(CHANNEL_TO_INSTRUMENT) :
           LET channel == CHANNEL_TO_INSTRUMENT[t].channel
           IN  channel \in DOMAIN channel_notes =>
                  \A i \in 1..Len(channel_notes[channel]) :
                     \E b \in 1..Len(song_data.tracks[t].bars) :
                        PairInBar(channel_notes[channel][i], song_data.tracks[t], b)

-----------------------------------------------------------------------------
(* Properties of encode_song_data (SpecEncode).                            *)

\* C1: encode_song_data never mutates the song it is given: after any
\* number of (window, transposition) combinations the caller's song is what
\* it was before the call and none of its bars holds the placeholder.
C1_OriginalNeverMutated ==
    e_pc \in {"loop", "done"} =>
        /\ caller_song = given_song
        /\ \A t \in 1..Len(caller_song.tracks) :
              \A b \in 1..Len(caller_song.tracks[t].bars) :
                 ~IsBarFill(caller_song.tracks[t].bars[b])

\* C1 witness: two combinations are done, the last one with both switches
\* on, a bar-fill backup and a non-empty track-fill backup taken.
C1_Witness ==
    /\ count >= 2
    /\ bar_fill /\ track_fill
    /\ bar_data_fill # NoBar
    /\ fill_bars_backup # <<>>
    /\ song_data_copy # given_song

RECURSIVE EventCount(_)
EventCount(bars_data) ==
    IF bars_data = <<>> THEN 0
    ELSE Len(Head(bars_data).events) + EventCount(Tail(bars_data))

\* C2: whenever a track with number == fill_track_number exists, for every
\* setting of bar_fill, the track-fill backup of a combination holds as many
\* events as that track had in the window's bars before any masking, and
\* every masked bar holds only the placeholder.
C2_TrackFillIntegrity ==
    (e_pc \in {"loop", "done"} /\ count > 0 /\ track_fill
        /\ \E t \in 1..Len(given_song.tracks) :
              given_song.tracks[t].number = fill_track_number)
    => LET t == CHOOSE u \in 1..Len(given_song.tracks) :
                   given_song.tracks[u].number = fill_track_number
           w == sample_log[count].window
       IN  /\ EventCount(fill_bars_backup)
                = EventCount(Slice(given_song.tracks[t].bars, w[1], w[2]))
           /\ \A b \in (w[1] + 1)..w[2] :
                 song_data_copy.tracks[t].bars[b] = FillBar

\* the song of the end-to-end scenario: one bar per track, a piano note of
\* pitch 60, no violin event
ScenarioSong ==
    [title  |-> 1,
     tracks |-> << [name |-> "Piano", number |-> 0, drums |-> FALSE,
                    bars |-> << NormalBar(<< NoteEvent("NOTE_ON", 60),
                                             TimeDelta([q |-> 4, r |-> 0]),
                                             NoteEvent("NOTE_OFF", 60) >>) >>],
                   [name |-> "Violin", number |-> 1, drums |-> FALSE,
                    bars |-> << NormalBar(<<>>) >>] >>]

\* C4: the scenario song with window_size_bars=1, hop_length_bars=1,
\* transpositions=[0], bar_fill off, track_fill on, fill_track_number=1
\* yields exactly one token sequence: the piano bar encoded normally, the
\* violin bar as BAR_START FILL_IN BAR_END, then FILL_START FILL_END.
C4_EndToEndScenario ==
    (e_pc = "done" /\ given_song = ScenarioSong
        /\ window_size_bars = 1 /\ hop_length_bars = 1 /\ transpositions = <<0>>
        /\ ~permute /\ ~bar_fill /\ track_fill /\ fill_track_number = 1)
    => /\ Len(token_sequences) = 1
       /\ \E piano_density, violin_density \in {"DENSITY=0", "DENSITY=1", "DENSITY=2"} :
             token_sequences[1] =
                << "PIECE_START",
                   "TRACK_START", "INST=0", piano_density,
                   "BAR_START", "NOTE_ON=60", "TIME_DELTA=4.0", "NOTE_OFF=60", "BAR_END",
                   "TRACK_END",
                   "TRACK_START", "INST=1", violin_density,
                   "BAR_START", "FILL_IN", "BAR_END",
                   "TRACK_END",
                   "FILL_START", "FILL_END" >>

PitchTokens ==
    {"NOTE_ON=" \o ToString(p) : p \in 0..127} \cup {"NOTE_OFF=" \o ToString(p) : p \in 0..127}

PitchTokensOf(tokens) == SelectSeq(tokens, LAMBDA token : token \in PitchTokens)

\* the pitch tokens of a sample that come from events of drum tracks: in the
\* body, in the bar-fill answer and in the track-fill answer
DrumPitchTokens(sample) ==
    << Flatten([k \in 1..Len(sample.blocks) |->
                  IF given_song.tracks[sample.order[k]].drums
                  THEN PitchTokensOf(sample.blocks[k]) ELSE <<>>]),
       IF sample.track_choice # 0 /\ given_song.tracks[sample.track_choice].drums
       THEN PitchTokensOf(sample.bar_answer) ELSE <<>>,
       IF sample.fill_index # 0 /\ given_song.tracks[sample.fill_index].drums
       THEN PitchTokensOf(sample.track_answer) ELSE <<>> >>

SameRunButTransposition(a, b) ==
    /\ a.window = b.window
    /\ a.track_choice = b.track_choice
    /\ a.bar_choice = b.bar_choice
    /\ a.order = b.order

\* C5: with permutation off, two samples of the same window and the same
\* masking choice that differ only in the transposition carry the same
\* pitch tokens for every drum track, in the body and in the answer segments.
C5_DrumInvariance ==
    ~permute =>
        \A i, j \in 1..Len(sample_log) :
           SameRunButTransposition(sample_log[i], sample_log[j])
           => DrumPitchTokens(sample_log[i]) = DrumPitchTokens(sample_log[j])

-----------------------------------------------------------------------------
(* Properties of the message loop of preprocess_midi_file (SpecTrack).     *)

\* the absolute tick of the j-th message read: the sum of the delta times
RECURSIVE TickAt(_)
TickAt(j) == IF j = 0 THEN 0 ELSE TickAt(j - 1) + msg_log[j].time

KeyAt(j) == <<msg_log[j].channel, msg_log[j].note>>
StrikesAt(j) == msg_log[j].type = "note_on" /\ msg_log[j].velocity > 0
ClosesAt(j) == Closes(msg_log[j])

\* the messages before the j-th that strike or close the key
KeyEventsBefore(j, key) ==
    {i \in 1..(j - 1) : KeyAt(i) = key /\ (StrikesAt(i) \/ ClosesAt(i))}

\* the most recent of them, 0 if there is none
LastKeyEventBefore(j, key) ==
    IF KeyEventsBefore(j, key) = {} THEN 0
    ELSE CHOOSE i \in KeyEventsBefore(j, key) : \A h \in KeyEventsBefore(j, key) : h <= i

\* an entry for the key is pending when the j-th message arrives
PendingAt(j, key) ==
    LastKeyEventBefore(j, key) # 0 /\ StrikesAt(LastKeyEventBefore(j, key))

\* the closing messages that meet a pending entry, in the order read
EmittingCloses(channel) ==
    SelectSeq([j \in 1..Len(msg_log) |-> j],
              LAMBDA j : /\ ClosesAt(j) /\ msg_log[j].channel = channel
                         /\ PendingAt(j, KeyAt(j)))

NotesClaimed(channel) ==
    [k \in 1..Len(EmittingCloses(channel)) |->
        LET j == EmittingCloses(channel)[k]
        IN  [pitch |-> msg_log[j].note,
             start |-> TickAt(LastKeyEventBefore(j, KeyAt(j))),
             end   |-> TickAt(j)]]

\* C11: over any message sequence of one track, a note-off (or zero-velocity
\* note-on) that meets a pending entry of its (channel, pitch) emits exactly
\* one Note {pitch, start = tick of the most recent note-on of the key, end =
\* current tick} and clears the entry, any other message emits nothing; a
\* note-on that meets a pending entry replaces it, so the replaced entry
\* never yields a Note, and entries pending at the end of the stream yield
\* none.
C11_NoteExtraction ==
    t_pc \in {"loop", "done"} =>
        /\ current_tick = TickAt(Len(msg_log))
        /\ DOMAIN channel_notes = {c \in {0, 3} : Len(EmittingCloses(c)) > 0}
        /\ \A c \in DOMAIN channel_notes : channel_notes[c] = NotesClaimed(c)
        /\ t_pc = "loop" =>
              /\ DOMAIN note_on_times
                    = {key \in TrackKeys : PendingAt(Len(msg_log) + 1, key)}
              /\ \A key \in DOMAIN note_on_times :
                    note_on_times[key] = TickAt(LastKeyEventBefore(Len(msg_log) + 1, key))

\* C11 witness: a key is struck twice, then closed (one Note, starting at the
\* second strike), then closed again with nothing pending; another key is
\* still pending when the stream ends.
C11_Witness ==
    /\ t_pc = "done"
    /\ Len(msg_log) = MaxMsgs
    /\ \E i, j \in 1..Len(msg_log) :
          /\ i < j /\ StrikesAt(i) /\ StrikesAt(j) /\ KeyAt(i) = KeyAt(j)
          /\ TickAt(i) < TickAt(j)
          /\ j < Len(msg_log)
          /\ ClosesAt(j + 1) /\ KeyAt(j + 1) = KeyAt(j)
          /\ KeyAt(j)[1] \in DOMAIN channel_notes
          /\ channel_notes[KeyAt(j)[1]]
                = <<[pitch |-> KeyAt(j)[2], start |-> TickAt(j), end |-> TickAt(j + 1)]>>
    /\ \E key \in TrackKeys : PendingAt(Len(msg_log) + 1, key)

-----------------------------------------------------------------------------
(* Properties of the token sequences of encode_song_data (SpecEncode).     *)

DensityTokens == {"DENSITY=" \o ToString(k) : k \in 0..Len(density_bins)}

Count(tokens, token) == Len(SelectSeq(tokens, LAMBDA x : x = token))

\* the track-fill target: the first track with number == fill_track_number
TargetPresent ==
    \E t \in 1..Len(given_song.tracks) : given_song.tracks[t].number = fill_track_number

Target ==
    CHOOSE t \in 1..Len(given_song.tracks) :
        /\ given_song.tracks[t].number = fill_track_number
        /\ \A u \in 1..(t - 1) : given_song.tracks[u].number # fill_track_number

\* the place of track t among the blocks of a sample
BlockOf(sample, t) == CHOOSE k \in 1..Len(sample.order) : sample.order[k] = t

\* the events of the song's bars start+1 .. end of track t as tokens, one
\* after the other, pitches shifted
EventTokensOfBars(t, start, end, shift) ==
    Flatten([b \in 1..(end - start) |->
                EncodeEvents(given_song.tracks[t].bars[start + b].events, shift)])

\* C12: with track_fill on, bar_fill off and the target track present, in
\* every sample the target track's block holds BAR_START FILL_IN BAR_END for
\* every bar of the window and no event token, and the sequence ends with
\* one FILL_START, the events of the window's bars of the target track as
\* they were before masking, in bar order, transposed by the sample's
\* transposition, with no BAR_START / BAR_END among them, and one FILL_END.
C12_TrackFillAnswer ==
    (e_pc \in {"loop", "done"} /\ track_fill /\ ~bar_fill /\ TargetPresent) =>
        \A i \in 1..Len(sample_log) :
           LET sample == sample_log[i]
               start  == sample.window[1]
               end    == sample.window[2]
               block  == sample.blocks[BlockOf(sample, Target)]
               answer == <<"FILL_START">>
                         \o EventTokensOfBars(Target, start, end, sample.transposition)
                         \o <<"FILL_END">>
               seq    == token_sequences[i]
           IN  /\ \E density \in DensityTokens :
                     block = <<"TRACK_START",
                               "INST=" \o (IF given_song.tracks[Target].drums THEN "DRUMS"
                                           ELSE ToString(given_song.tracks[Target].number)),
                               density>>
                             \o Flatten([b \in 1..(end - start) |->
                                            <<"BAR_START", "FILL_IN", "BAR_END">>])
                             \o <<"TRACK_END">>
               /\ seq = <<"PIECE_START">> \o Flatten(sample.blocks) \o answer
               /\ Count(seq, "FILL_START") = 1 /\ Count(seq, "FILL_END") = 1
               /\ Count(answer, "BAR_START") = 0 /\ Count(answer, "BAR_END") = 0
               /\ Count(seq, "FILL_IN") = end - start

\* C12 witness: a track-fill sample over a window of two bars that both hold
\* a violin note, transposed by 2.
C12_Witness ==
    /\ e_pc \in {"loop", "done"} /\ track_fill /\ ~bar_fill /\ TargetPresent
    /\ \E i \in 1..Len(sample_log) :
          /\ sample_log[i].window[2] - sample_log[i].window[1] = 2
          /\ sample_log[i].transposition = 2
          /\ \A b \in 1..2 :
                given_song.tracks[Target].bars[sample_log[i].window[1] + b].events # <<>>
          /\ Count(token_sequences[i], "NOTE_ON=74") = 1

\* the (track, bar) places of the masked copy that hold the placeholder
Placeholders ==
    {p \in (1..Len(song_data_copy.tracks)) \X (1..bars) :
        /\ p[2] <= Len(song_data_copy.tracks[p[1]].bars)
        /\ IsBarFill(song_data_copy.tracks[p[1]].bars[p[2]])}

\* the bar-fill claim, for a given content of the answer of an empty bar
BarFillClaim(answer_of_empty_bar) ==
    (e_pc \in {"loop", "done"} /\ bar_fill /\ count > 0) =>
        /\ LET last == sample_log[count]
               pick == <<last.track_choice, last.bar_choice>>
           IN  /\ last.window[1] < pick[2] /\ pick[2] <= last.window[2]
               /\ Placeholders =
                     {pick} \cup (IF track_fill /\ TargetPresent
                                  THEN {Target} \X ((last.window[1] + 1)..last.window[2])
                                  ELSE {})
        /\ \A i \in 1..Len(sample_log) :
              LET sample == sample_log[i]
                  events == given_song.tracks[sample.track_choice]
                                .bars[sample.bar_choice].events
                  answer == <<"FILL_START">>
                            \o (IF events = <<>> THEN answer_of_empty_bar
                                ELSE EncodeEvents(events, sample.transposition))
                            \o <<"FILL_END">>
              IN  /\ sample.bar_answer = answer
                  /\ token_sequences[i] = <<"PIECE_START">> \o Flatten(sample.blocks)
                                           \o answer \o sample.track_answer

\* C14 (as claimed): with bar_fill on, one bar of one track inside the
\* window is replaced by the placeholder, and after all tracks the backed-up
\* bar follows between FILL_START and FILL_END, transposed by the sample's
\* transposition; the answer of a bar without events is FILL_START FILL_IN
\* FILL_END.
C14_EmptyBackupIsFillIn == BarFillClaim(<<"FILL_IN">>)

\* C14 (amended): as above, but the answer of a bar without events is
\* FILL_START FILL_END with no token in between; FILL_IN never stands in the
\* bar-fill answer.
C14_BarFillAnswer ==
    /\ BarFillClaim(<<>>)
    /\ \A i \in 1..Len(sample_log) : Count(sample_log[i].bar_answer, "FILL_IN") = 0

\* C14 witness: bar-fill alone has picked a violin bar without events; the
\* sample ends with FILL_START FILL_END.
C14_Witness ==
    /\ e_pc \in {"loop", "done"} /\ bar_fill /\ ~track_fill /\ count > 0
    /\ sample_log[count].track_choice = 2
    /\ bar_data_fill = NormalBar(<<>>)
    /\ Cardinality(Placeholders) = 1
    /\ sample_log[count].bar_answer = <<"FILL_START", "FILL_END">>

\* the bar group claimed for a bar of the masked copy
BarGroupClaimed(bar, shift) ==
    IF IsBarFill(bar) THEN <<"BAR_START", "FILL_IN", "BAR_END">>
    ELSE <<"BAR_START">> \o EncodeEvents(bar.events, shift) \o <<"BAR_END">>

\* the block claimed for track t of the masked copy, over the window
\* (start, end), with the given DENSITY token
BlockClaimed(t, start, end, transposition, density) ==
    LET track == song_data_copy.tracks[t]
        shift == IF track.drums THEN 0 ELSE transposition
    IN  <<"TRACK_START",
          IF track.drums THEN "INST=DRUMS" ELSE "INST=" \o ToString(track.number),
          density>>
        \o Flatten([b \in 1..(end - start) |-> BarGroupClaimed(track.bars[start + b], shift)])
        \o <<"TRACK_END">>

TrackOrders(n) ==
    {p \in [1..n -> 1..n] : \A t \in 1..n : Cardinality({k \in 1..n : p[k] = t}) = 1}

\* C16: the token sequence of a sample is PIECE_START, then one block per
\* track: TRACK_START, INST=DRUMS or INST=<number>, one DENSITY=<k>, one bar
\* group per bar of the window in bar order (BAR_START FILL_IN BAR_END for a
\* placeholder bar, else BAR_START, the bar's event tokens, BAR_END),
\* TRACK_END; the blocks follow the song's track order when permute is off
\* and some permutation of the tracks, each once, when it is on; an answer
\* segment stands only after the last TRACK_END.
C16_TokenOrder ==
    (e_pc \in {"loop", "done"} /\ count > 0) =>
        LET sample == sample_log[count]
            seq    == token_sequences[count]
            n      == Len(song_data_copy.tracks)
            answer == sample.bar_answer \o sample.track_answer
            body   == SubSeq(seq, 1, Len(seq) - Len(answer))
        IN  /\ Len(token_sequences) = count
            /\ Len(sample.blocks) = n
            /\ \A k \in 1..n : sample.blocks[k][3] \in DensityTokens
            /\ \E order \in IF permute THEN TrackOrders(n) ELSE {[k \in 1..n |-> k]} :
                  body = <<"PIECE_START">>
                         \o Flatten([k \in 1..n |->
                                BlockClaimed(order[k], sample.window[1], sample.window[2],
                                             sample.transposition, sample.blocks[k][3])])
            /\ seq = body \o answer
            /\ body[Len(body)] = "TRACK_END"
            /\ Count(body, "FILL_START") = 0 /\ Count(body, "FILL_END") = 0
            /\ Count(body, "TRACK_END") = n /\ Count(body, "TRACK_START") = n
            /\ Count(answer, "TRACK_START") = 0 /\ Count(answer, "TRACK_END") = 0
            /\ answer # <<>> => answer[1] = "FILL_START" /\ answer[Len(answer)] = "FILL_END"

\* C16 witness: a sample with the tracks permuted, the violin flagged as
\* drums, a placeholder bar in the body and an answer segment.
C16_Witness ==
    /\ e_pc \in {"loop", "done"} /\ count > 0
    /\ permute /\ sample_log[count].order = <<2, 1>>
    /\ given_song.tracks[2].drums
    /\ Placeholders # {}
    /\ token_sequences[count][3] = "INST=DRUMS"
    /\ Count(token_sequences[count], "FILL_START") > 0
    /\ Count(token_sequences[count], "NOTE_ON=60") = 1

\* C17: with track_fill on, bar_fill off and no track numbered
\* fill_track_number, every (window, transposition) combination still
\* yields a sample; the sample holds no FILL_IN, FILL_START or FILL_END and
\* is the sequence the same combination yields with track_fill off.
C17_TargetAbsent ==
    (e_pc \in {"loop", "done"} /\ track_fill /\ ~bar_fill /\ ~TargetPresent) =>
        /\ Len(token_sequences) = count
        /\ e_pc = "done" => count = Len(bar_indices) * Len(transpositions)
        /\ \A i \in 1..count :
              LET sample == sample_log[i]
                  seq    == token_sequences[i]
              IN  /\ sample.window = bar_indices[((i - 1) \div Len(transpositions)) + 1]
                  /\ sample.transposition
                        = transpositions[((i - 1) % Len(transpositions)) + 1]
                  /\ Count(seq, "FILL_IN") = 0
                  /\ Count(seq, "FILL_START") = 0
                  /\ Count(seq, "FILL_END") = 0
                  /\ seq = encode_combination(given_song, density_bins, FALSE, FALSE,
                                               fill_track_number, sample.window,
                                               sample.transposition, 0, 0,
                                               sample.order).token_sequence

\* C17 witness: a call with track_fill on and fill_track_number = 2, which
\* no track carries, has returned four samples; the violin's notes stand in
\* the body of the last one.
C17_Witness ==
    /\ e_pc = "done" /\ track_fill /\ ~bar_fill /\ ~TargetPresent
    /\ count = 4
    /\ Len(token_sequences) = 4
    /\ \E p \in 72..76 : Count(token_sequences[4], "NOTE_ON=" \o ToString(p)) = 1

====
